---- MODULE Spec2Model ----
(***************************************************************************)
(* A model of serve.py: the port scan of find_free_port, the start-up and  *)
(* shutdown sequence of main, and the response decoration of               *)
(* CORSHTTPRequestHandler.                                                 *)
(***************************************************************************)
EXTENDS Integers, Sequences, FiniteSets, TLC

(* ------------------------------------------------------------------ *)
(* Program constants                                                  *)
(* ------------------------------------------------------------------ *)

\* range(start_port, start_port + 100)
ScanWidth == 100

\* find_free_port(8000)
DefaultStartPort == 8000

\* Python's None, as returned by find_free_port when the scan is exhausted
\* (no TCP port is negative).
None == -1

(* ------------------------------------------------------------------ *)
(* Bounds of the model                                                *)
(* ------------------------------------------------------------------ *)

\* Ports above the first bindable one whose state is also chosen freely.
MaxAbove == 2

\* Steps other processes take on the selected port between the probe's
\* release and the server's bind.
MaxOthers == 2

\* Length of the free part of a request path, before its ending.
MaxStemLen == 1

VARIABLES
    start_port,   \* find_free_port's argument
    unbindable,   \* ports bind() refuses now: held by another process, or privileged
    pc,           \* the position of the main thread
    port,         \* find_free_port's loop variable
    probes,       \* the probing sockets that are open: [port, bound]
    result,       \* what find_free_port returned (main's port)
    httpd,        \* the port of the listening server socket, or None
    out,          \* what has been printed, in order
    exit_status,  \* the process's exit status, None while it runs
    exc,          \* the uncaught exception that ended the process, "" if none
    browser,      \* what webbrowser.open did: "none" before the call
    interrupted,  \* a KeyboardInterrupt is pending in serve_forever
    calls,        \* how many times main called find_free_port
    others,       \* steps taken by other processes
    h_pc,         \* the request handler's position
    req,          \* the request being handled: [command, path, found]
    resp          \* the response sent for it: [status, lib, headers, body]

scan_vars == <<start_port, port, probes, result>>
main_vars == <<httpd, out, exit_status, exc, browser, interrupted, calls>>
handler_vars == <<h_pc, req, resp>>
vars == <<start_port, unbindable, pc, port, probes, result, httpd, out,
          exit_status, exc, browser, interrupted, calls, others, h_pc, req, resp>>

(* ------------------------------------------------------------------ *)
(* find_free_port                                                     *)
(* ------------------------------------------------------------------ *)

\* A widened scan: range(start_port, start_port + 101).
ScanRange_one_more(start) == start .. (start + ScanWidth)

\* range(start_port, start_port + 100)
ScanRange(start) == start .. (start + ScanWidth - 1)

\* A socket left open when its with-block is left.
socket_exit_leak(socks, p) == socks

\* Leaving `with socket.socket(...) as s` closes the socket, on a return as
\* on an exception.
socket_exit(socks, p) == {s \in socks : s.port # p}

\* bind(('', p)) succeeds unless the port is refused by the system or is
\* held by a socket of this process.
CanBind(p) ==
    /\ p \notin unbindable
    /\ \A s \in probes : ~(s.bound /\ s.port = p)
    /\ httpd # p

\* Entry of find_free_port: the loop starts at start_port.
find_free_port_entry ==
    /\ pc = "entry"
    /\ port' = start_port
    /\ pc' = "for"
    /\ UNCHANGED <<start_port, unbindable, probes, result, main_vars, others, handler_vars>>

\* The loop takes the next port of the range and opens a probing socket.
socket_open ==
    /\ pc = "for"
    /\ port \in ScanRange(start_port)
    /\ probes' = probes \cup {[port |-> port, bound |-> FALSE]}
    /\ pc' = "bind"
    /\ UNCHANGED <<start_port, unbindable, port, result, main_vars, others, handler_vars>>

\* s.bind(('', port)) succeeds.
bind_ok ==
    /\ pc = "bind"
    /\ CanBind(port)
    /\ probes' = {IF s.port = port THEN [s EXCEPT !.bound = TRUE] ELSE s : s \in probes}
    /\ pc' = "return"
    /\ UNCHANGED <<start_port, unbindable, port, result, main_vars, others, handler_vars>>

\* s.bind raises OSError: the with-block closes the socket, the except
\* clause continues with the next port.
bind_OSError ==
    /\ pc = "bind"
    /\ ~CanBind(port)
    /\ probes' = socket_exit(probes, port)
    /\ port' = port + 1
    /\ pc' = "for"
    /\ UNCHANGED <<start_port, unbindable, result, main_vars, others, handler_vars>>

\* return port: the with-block closes the socket, the port is returned.
return_port ==
    /\ pc = "return"
    /\ probes' = socket_exit(probes, port)
    /\ result' = port
    /\ pc' = "returned"
    /\ UNCHANGED <<start_port, unbindable, port, main_vars, others, handler_vars>>

\* The range is exhausted: return None.
return_None ==
    /\ pc = "for"
    /\ port \notin ScanRange(start_port)
    /\ result' = None
    /\ pc' = "returned"
    /\ UNCHANGED <<start_port, unbindable, port, probes, main_vars, others, handler_vars>>

FindNext ==
    \/ find_free_port_entry
    \/ socket_open
    \/ bind_ok
    \/ bind_OSError
    \/ return_port
    \/ return_None

(* ------------------------------------------------------------------ *)
(* main                                                               *)
(* ------------------------------------------------------------------ *)

\* main changes directory and calls find_free_port(8000).
main_start ==
    /\ pc = "main"
    /\ calls' = calls + 1
    /\ pc' = "entry"
    /\ UNCHANGED <<scan_vars, unbindable, httpd, out, exit_status, exc, browser,
                   interrupted, others, handler_vars>>

\* A start-up that goes on without a port: the server is bound to the
\* default port.
main_port_is_None_goes_on ==
    /\ pc = "returned"
    /\ result = None
    /\ httpd' = DefaultStartPort
    /\ pc' = "banner"
    /\ UNCHANGED <<scan_vars, unbindable, out, exit_status, exc, browser,
                   interrupted, calls, others, handler_vars>>

\* if port is None: print the diagnostic, sys.exit(1).
main_port_is_None ==
    /\ pc = "returned"
    /\ result = None
    /\ out' = Append(out, "no_free_port")
    /\ exit_status' = 1
    /\ pc' = "exited"
    /\ UNCHANGED <<scan_vars, unbindable, httpd, exc, browser, interrupted, calls,
                   others, handler_vars>>

\* A server bound to the port after the selected one.
TCPServer_ok_next_port ==
    /\ pc = "returned"
    /\ result # None
    /\ CanBind(result + 1)
    /\ httpd' = result + 1
    /\ pc' = "banner"
    /\ UNCHANGED <<scan_vars, unbindable, out, exit_status, exc, browser,
                   interrupted, calls, others, handler_vars>>

\* socketserver.TCPServer(("", port), ...) binds and listens.
TCPServer_ok ==
    /\ pc = "returned"
    /\ result # None
    /\ CanBind(result)
    /\ httpd' = result
    /\ pc' = "banner"
    /\ UNCHANGED <<scan_vars, unbindable, out, exit_status, exc, browser,
                   interrupted, calls, others, handler_vars>>

\* socketserver.TCPServer(("", port), ...) raises OSError, which main does
\* not catch: the interpreter prints the traceback and exits with status 1.
TCPServer_OSError ==
    /\ pc = "returned"
    /\ result # None
    /\ ~CanBind(result)
    /\ exc' = "OSError"
    /\ exit_status' = 1
    /\ pc' = "exited"
    /\ UNCHANGED <<scan_vars, unbindable, httpd, out, browser, interrupted, calls,
                   others, handler_vars>>

\* The banner, the URL and the feature list are printed.
print_banner ==
    /\ pc = "banner"
    /\ out' = Append(out, "banner")
    /\ pc' = "browser"
    /\ UNCHANGED <<scan_vars, unbindable, httpd, exit_status, exc, browser,
                   interrupted, calls, others, handler_vars>>

\* webbrowser.open(url) returns True (a browser was launched), returns
\* False (none could be launched) or raises; only a raise reaches the
\* except clause.
webbrowser_open ==
    /\ pc = "browser"
    /\ \E r \in {"True", "False", "raised"} :
         /\ browser' = r
         /\ out' = IF r = "raised"
                   THEN Append(out, "open_manually")
                   ELSE Append(out, "browser_opened")
    /\ pc' = "serve"
    /\ UNCHANGED <<scan_vars, unbindable, httpd, exit_status, exc, interrupted,
                   calls, others, handler_vars>>

\* httpd.serve_forever() is entered.
serve_forever ==
    /\ pc = "serve"
    /\ pc' = "serving"
    /\ UNCHANGED <<scan_vars, unbindable, main_vars, others, handler_vars>>

\* An interrupt handler that reports a failure.
except_KeyboardInterrupt_status_1 ==
    /\ pc = "serving"
    /\ interrupted
    /\ out' = Append(out, "server_stopped")
    /\ exit_status' = 1
    /\ httpd' = None
    /\ pc' = "exited"
    /\ UNCHANGED <<scan_vars, unbindable, exc, browser, interrupted, calls, others,
                   handler_vars>>

\* except KeyboardInterrupt: print the notice, sys.exit(0); leaving the
\* with-block closes the server socket.
except_KeyboardInterrupt ==
    /\ pc = "serving"
    /\ interrupted
    /\ out' = Append(out, "server_stopped")
    /\ exit_status' = 0
    /\ httpd' = None
    /\ pc' = "exited"
    /\ UNCHANGED <<scan_vars, unbindable, exc, browser, interrupted, calls, others,
                   handler_vars>>

MainNext ==
    \/ main_start
    \/ main_port_is_None
    \/ TCPServer_ok
    \/ TCPServer_OSError
    \/ print_banner
    \/ webbrowser_open
    \/ serve_forever
    \/ except_KeyboardInterrupt

(* ------------------------------------------------------------------ *)
(* The environment of main                                            *)
(* ------------------------------------------------------------------ *)

\* Ctrl+C while the server serves.
KeyboardInterrupt ==
    /\ pc = "serving"
    /\ ~interrupted
    /\ interrupted' = TRUE
    /\ UNCHANGED <<scan_vars, unbindable, pc, httpd, out, exit_status, exc, browser,
                   calls, others, handler_vars>>

\* Another process binds the port find_free_port returned, after the probe
\* has released it and before the server binds it.
other_bind ==
    /\ pc = "returned"
    /\ result # None
    /\ others < MaxOthers
    /\ result \notin unbindable
    /\ unbindable' = unbindable \cup {result}
    /\ others' = others + 1
    /\ UNCHANGED <<scan_vars, pc, main_vars, handler_vars>>

\* That process releases the port again.
other_release ==
    /\ pc = "returned"
    /\ result # None
    /\ others < MaxOthers
    /\ result \in unbindable
    /\ unbindable' = unbindable \ {result}
    /\ others' = others + 1
    /\ UNCHANGED <<scan_vars, pc, main_vars, handler_vars>>

EnvNext ==
    \/ KeyboardInterrupt
    \/ other_bind
    \/ other_release

(* ------------------------------------------------------------------ *)
(* CORSHTTPRequestHandler                                             *)
(* ------------------------------------------------------------------ *)

\* No request read yet, no response sent yet.
NoRequest == [command |-> "", path |-> <<>>, found |-> FALSE]
NoResponse == [status |-> 0, by |-> "", lib |-> {}, headers |-> <<>>, body |-> "empty"]

\* A request path is a sequence of characters.
dot_js == <<".", "j", "s">>
dot_html == <<".", "h", "t", "m", "l">>

\* The five headers without Cross-Origin-Opener-Policy.
Baseline_without_COOP ==
    << <<"Access-Control-Allow-Origin", "*">>,
       <<"Access-Control-Allow-Methods", "GET, POST, OPTIONS">>,
       <<"Access-Control-Allow-Headers", "Content-Type">>,
       <<"Cross-Origin-Embedder-Policy", "require-corp">> >>

\* The five send_header calls that open end_headers.
Baseline ==
    << <<"Access-Control-Allow-Origin", "*">>,
       <<"Access-Control-Allow-Methods", "GET, POST, OPTIONS">>,
       <<"Access-Control-Allow-Headers", "Content-Type">>,
       <<"Cross-Origin-Embedder-Policy", "require-corp">>,
       <<"Cross-Origin-Opener-Policy", "same-origin">> >>

\* The three send_header calls under the suffix test.
NoCache ==
    << <<"Cache-Control", "no-cache, no-store, must-revalidate">>,
       <<"Pragma", "no-cache">>,
       <<"Expires", "0">> >>

\* str.endswith: the last Len(suffix) characters of s are suffix.
endswith(s, suffix) ==
    /\ Len(s) >= Len(suffix)
    /\ SubSeq(s, Len(s) - Len(suffix) + 1, Len(s)) = suffix

\* A suffix test on the path with its query string removed.
StripQuery(s) ==
    IF \E i \in DOMAIN s : s[i] = "?"
    THEN SubSeq(s, 1, (CHOOSE i \in DOMAIN s : s[i] = "?" /\ \A j \in 1 .. (i - 1) : s[j] # "?") - 1)
    ELSE s
end_headers_query_stripped(path) ==
    Baseline \o (IF endswith(StripQuery(path), dot_js) \/ endswith(StripQuery(path), dot_html)
                 THEN NoCache
                 ELSE <<>>)

\* end_headers: the headers the override sends before the inherited
\* end_headers closes the header block.
end_headers(path) ==
    Baseline \o (IF endswith(path, dot_js) \/ endswith(path, dot_html)
                 THEN NoCache
                 ELSE <<>>)

\* The headers the inherited handler has sent when end_headers is called:
\* send_response sends Server and Date, the file and error paths send the
\* content headers.
StatusHeaders == {"Server", "Date"}
ContentHeaders == {"Content-type", "Content-Length"}

\* The commands a client sends.
Commands == {"GET", "HEAD", "POST", "OPTIONS", "PUT"}

\* The endings of the request paths.
Tails ==
    { <<>>, dot_js, dot_html,
      <<".", "J", "S">>, <<".", "H", "T", "M", "L">>, <<".", "j", "S">>,
      dot_js \o <<"?", "x", "=", "1">>, dot_html \o <<"?", "v">>,
      dot_js \o <<"x">>, <<".", "h", "t", "m">>, dot_js \o <<"o", "n">>,
      <<".", "p", "n", "g">>, <<"j", "s">>, <<"h", "t", "m", "l">>,
      dot_js \o <<"/">>, <<".", "m", "j", "s">>, dot_js \o dot_html,
      dot_html \o dot_js, <<"?", "f", "=">> \o dot_js, <<".">> }

StemChars == {"a", ".", "/"}
Stems == UNION { [1 .. n -> StemChars] : n \in 0 .. MaxStemLen }

\* The raw request paths: "/", a stem, an ending.
Paths == { <<"/">> \o stem \o tail : stem \in Stems, tail \in Tails }

\* The server reads and parses a request: command and path are set.
handle_one_request ==
    /\ pc = "serving"
    /\ h_pc \in {"idle", "finished"}
    /\ \E c \in Commands, p \in Paths, f \in BOOLEAN :
         req' = [command |-> c, path |-> p, found |-> f]
    /\ resp' = NoResponse
    /\ h_pc' = "parsed"
    /\ UNCHANGED <<scan_vars, unbindable, pc, main_vars, others>>

\* No do_OPTIONS: the inherited handler answers 501 through send_error.
do_OPTIONS_not_defined ==
    /\ h_pc = "parsed"
    /\ req.command = "OPTIONS"
    /\ resp' = [status |-> 501, by |-> "send_error",
                lib |-> StatusHeaders \cup ContentHeaders \cup {"Connection"},
                headers |-> end_headers(req.path), body |-> "error_page"]
    /\ h_pc' = "finished"
    /\ UNCHANGED <<scan_vars, unbindable, pc, main_vars, others, req>>

\* do_OPTIONS: send_response(200), end_headers().
do_OPTIONS ==
    /\ h_pc = "parsed"
    /\ req.command = "OPTIONS"
    /\ resp' = [status |-> 200, by |-> "do_OPTIONS", lib |-> StatusHeaders,
                headers |-> end_headers(req.path), body |-> "empty"]
    /\ h_pc' = "finished"
    /\ UNCHANGED <<scan_vars, unbindable, pc, main_vars, others, req>>

\* The inherited do_GET and do_HEAD: the file is served with 200, a missing
\* one is answered 404 through send_error; both end in end_headers. HEAD
\* sends no body.
do_GET_HEAD ==
    /\ h_pc = "parsed"
    /\ req.command \in {"GET", "HEAD"}
    /\ resp' = IF req.found
               THEN [status |-> 200, by |-> "send_head",
                     lib |-> StatusHeaders \cup ContentHeaders \cup {"Last-Modified"},
                     headers |-> end_headers(req.path),
                     body |-> IF req.command = "GET" THEN "file" ELSE "empty"]
               ELSE [status |-> 404, by |-> "send_head",
                     lib |-> StatusHeaders \cup ContentHeaders \cup {"Connection"},
                     headers |-> end_headers(req.path),
                     body |-> IF req.command = "GET" THEN "error_page" ELSE "empty"]
    /\ h_pc' = "finished"
    /\ UNCHANGED <<scan_vars, unbindable, pc, main_vars, others, req>>

\* A command with no do_ method: the inherited handler answers 501 through
\* send_error, which ends in end_headers.
send_error_501 ==
    /\ h_pc = "parsed"
    /\ req.command \notin {"GET", "HEAD", "OPTIONS"}
    /\ resp' = [status |-> 501, by |-> "send_error",
                lib |-> StatusHeaders \cup ContentHeaders \cup {"Connection"},
                headers |-> end_headers(req.path), body |-> "error_page"]
    /\ h_pc' = "finished"
    /\ UNCHANGED <<scan_vars, unbindable, pc, main_vars, others, req>>

HandlerNext ==
    \/ handle_one_request
    \/ do_OPTIONS
    \/ do_GET_HEAD
    \/ send_error_501

(* ------------------------------------------------------------------ *)
(* Initial states                                                     *)
(* ------------------------------------------------------------------ *)

\* The states of the ports when the scan starts: the first `first` ports
\* from `start` are unbindable, the next one is bindable, and the MaxAbove
\* ports after it are unbindable or not.
PortStates(start) ==
    UNION { { (start .. (start + first - 1)) \cup above :
                above \in SUBSET ((start + first + 1) .. (start + first + MaxAbove)) } :
            first \in 0 .. ScanWidth }

\* The start ports find_free_port is called with: the default, the lowest
\* port, and the highest one whose range holds only ports.
StartPorts == {DefaultStartPort, 1, 65535 - ScanWidth + 1}

InitRest ==
    /\ port = None
    /\ probes = {}
    /\ result = None
    /\ httpd = None
    /\ out = <<>>
    /\ exit_status = None
    /\ exc = ""
    /\ browser = "none"
    /\ interrupted = FALSE
    /\ calls = 0
    /\ others = 0
    /\ h_pc = "idle"
    /\ req = NoRequest
    /\ resp = NoResponse

\* The process starts: main has not run yet.
Init ==
    /\ start_port = DefaultStartPort
    /\ unbindable \in PortStates(start_port)
    /\ pc = "main"
    /\ InitRest

Next == FindNext \/ MainNext \/ EnvNext

Spec == Init /\ [][Next]_vars

\* The main thread is scheduled as long as it can take a step; interrupts
\* and other processes need not act.
FairSpec == Spec /\ WF_vars(FindNext \/ MainNext)

\* find_free_port alone, called with any start port.
InitFind ==
    /\ start_port \in StartPorts
    /\ unbindable \in PortStates(start_port)
    /\ pc = "entry"
    /\ InitRest

SpecFind == InitFind /\ [][FindNext]_vars

\* The request handler in a serving process: the scan found port 8000
\* bindable, the server is bound to it and serve_forever runs.
InitHandler ==
    /\ start_port = DefaultStartPort
    /\ unbindable = {}
    /\ pc = "serving"
    /\ port = DefaultStartPort
    /\ probes = {}
    /\ result = DefaultStartPort
    /\ httpd = DefaultStartPort
    /\ out = <<"banner", "browser_opened">>
    /\ exit_status = None
    /\ exc = ""
    /\ browser = "True"
    /\ interrupted = FALSE
    /\ calls = 1
    /\ others = 0
    /\ h_pc = "idle"
    /\ req = NoRequest
    /\ resp = NoResponse

SpecHandler == InitHandler /\ [][HandlerNext]_vars

(* ------------------------------------------------------------------ *)
(* Properties                                                         *)
(* ------------------------------------------------------------------ *)

\* find_free_port has returned (or main is past the call).
ScanDone == pc \notin {"main", "entry", "for", "bind", "return"}

Printed == {out[i] : i \in DOMAIN out}
HeaderSet == {resp.headers[i] : i \in DOMAIN resp.headers}
HeaderNames == {resp.headers[i][1] : i \in DOMAIN resp.headers}

\* The header tables of the specification.
FiveBaseline ==
    { <<"Access-Control-Allow-Origin", "*">>,
      <<"Access-Control-Allow-Methods", "GET, POST, OPTIONS">>,
      <<"Access-Control-Allow-Headers", "Content-Type">>,
      <<"Cross-Origin-Embedder-Policy", "require-corp">>,
      <<"Cross-Origin-Opener-Policy", "same-origin">> }
ThreeNoCache ==
    { <<"Cache-Control", "no-cache, no-store, must-revalidate">>,
      <<"Pragma", "no-cache">>,
      <<"Expires", "0">> }
NoCacheNames == {"Cache-Control", "Pragma", "Expires"}

\* The raw path ends with the characters .js or .html, case as given.
RawSuffixJsOrHtml(p) ==
    LET n == Len(p) IN
    \/ n >= 3 /\ p[n - 2] = "." /\ p[n - 1] = "j" /\ p[n] = "s"
    \/ n >= 5 /\ p[n - 4] = "." /\ p[n - 3] = "h" /\ p[n - 2] = "t"
              /\ p[n - 1] = "m" /\ p[n] = "l"

\* C1: when some port of P..P+99 is bindable, find_free_port(P) returns
\* the lowest bindable port of that range (P itself when P is bindable),
\* having skipped the unbindable ports below it; no port at or above
\* P+100 is probed or returned.
C1_LowestBindablePort ==
    /\ \A s \in probes : s.port >= start_port /\ s.port <= start_port + 99
    /\ (pc = "returned" /\ \E p \in start_port .. (start_port + 99) : p \notin unbindable)
         => /\ result \in start_port .. (start_port + 99)
            /\ result \notin unbindable
            /\ \A q \in start_port .. (result - 1) : q \in unbindable
    /\ (pc = "returned" /\ start_port \notin unbindable) => result = start_port
    /\ pc = "returned" => result <= start_port + 99

\* C1's case: ports were skipped and a higher one was returned.
C1_Witness ==
    /\ pc = "returned"
    /\ result = start_port + 3
    /\ start_port + 2 \in unbindable
    /\ start_port + 4 \in unbindable

\* C2: when every port of 8000..8099 is unbindable, find_free_port returns
\* None without raising, and main prints the diagnostic and exits with
\* status 1: no server is constructed, no banner printed, no browser
\* opened, and find_free_port is not called again. (While others = 0 the
\* ports are as the scan found them.)
C2_ExhaustedRangeExits1 ==
    /\ (ScanDone /\ others = 0 /\ \A p \in start_port .. (start_port + 99) : p \in unbindable)
         => result = None /\ exc = ""
    /\ (ScanDone /\ result = None)
         => /\ pc \in {"returned", "exited"}
            /\ httpd = None
            /\ "banner" \notin Printed
            /\ browser = "none"
            /\ calls = 1
            /\ exc = ""
    /\ (pc = "exited" /\ result = None)
         => exit_status = 1 /\ out = <<"no_free_port">>

\* C2's case: the range was exhausted and the process has exited.
C2_Witness ==
    /\ pc = "exited"
    /\ result = None
    /\ \A p \in start_port .. (start_port + 99) : p \in unbindable
    /\ exit_status = 1

\* C3: every response, whatever the command, the path and the status,
\* carries the five baseline headers with their literal values.
C3_BaselineOnEveryResponse ==
    h_pc = "finished" => FiveBaseline \subseteq HeaderSet

\* C3's case: an error response of the inherited handler.
C3_Witness ==
    /\ h_pc = "finished"
    /\ resp.status = 404
    /\ FiveBaseline \subseteq HeaderSet

\* C4: a response carries the three no-cache headers exactly when the raw
\* request path ends with .js or .html (case-sensitive, query string kept),
\* and the three are all present or all absent.
C4_NoCacheIffRawSuffix ==
    h_pc = "finished" =>
        /\ RawSuffixJsOrHtml(req.path) => ThreeNoCache \subseteq HeaderSet
        /\ ~RawSuffixJsOrHtml(req.path) => HeaderNames \cap NoCacheNames = {}
        /\ HeaderNames \cap NoCacheNames \in {{}, NoCacheNames}

\* C4's case: a path whose file name ends in .js but whose raw string does
\* not, because of its query string.
C4_Witness ==
    /\ h_pc = "finished"
    /\ req.command = "GET"
    /\ req.path = <<"/", "a", ".", "j", "s", "?", "x", "=", "1">>
    /\ HeaderNames \cap NoCacheNames = {}

\* C5 as stated: an OPTIONS response has status 200, no body and exactly
\* the five baseline headers, whatever the path.
C5_OptionsOnlyBaseline ==
    (h_pc = "finished" /\ req.command = "OPTIONS")
        => /\ resp.status = 200
           /\ resp.body = "empty"
           /\ HeaderSet = FiveBaseline
           /\ resp.by # "send_head"

\* C5, amended: an OPTIONS response has status 200, no body and no content
\* headers, is produced without the static-file logic, and carries the five
\* baseline headers, followed by the three no-cache headers exactly when
\* the raw path ends with .js or .html.
C5_OptionsDecoratedLikeAnyResponse ==
    (h_pc = "finished" /\ req.command = "OPTIONS")
        => /\ resp.status = 200
           /\ resp.body = "empty"
           /\ resp.by = "do_OPTIONS"
           /\ resp.lib = {"Server", "Date"}
           /\ HeaderSet = IF RawSuffixJsOrHtml(req.path)
                          THEN FiveBaseline \cup ThreeNoCache
                          ELSE FiveBaseline
           /\ Len(resp.headers) = Cardinality(HeaderSet)

\* C5's case: OPTIONS on a missing path that ends in .html.
C5_Witness ==
    /\ h_pc = "finished"
    /\ req.command = "OPTIONS"
    /\ ~req.found
    /\ req.path = <<"/", "a", ".", "h", "t", "m", "l">>
    /\ ThreeNoCache \subseteq HeaderSet

\* C6: once the server serves, a keyboard interrupt leads to shutdown (the
\* server socket closed, the notice printed last, exit status 0), and the
\* serving state is left only after an interrupt.
C6_InterruptStopsServer ==
    /\ (pc = "serving" /\ interrupted)
         ~> (/\ pc = "exited"
             /\ exit_status = 0
             /\ httpd = None
             /\ out # <<>>
             /\ out[Len(out)] = "server_stopped")
    /\ [][(pc = "serving" /\ pc' # "serving") => interrupted]_vars
    /\ [](pc = "serving" => httpd # None /\ exit_status = None)

\* C6's case: the server was interrupted and the process has exited.
C6_Witness ==
    /\ pc = "exited"
    /\ interrupted
    /\ exit_status = 0
    /\ httpd = None
    /\ "server_stopped" \in Printed

\* C7: once find_free_port has returned a port and main has attempted the
\* server's construction, the server is bound to that port and no
\* exception has ended the process.
C7_ConstructionAlwaysBinds ==
    (ScanDone /\ result # None /\ pc # "returned")
        => /\ exc = ""
           /\ (pc # "exited" => httpd = result)

\* C8: at most one probing socket is open at any moment, none is open
\* once find_free_port has returned, and none while the server socket is
\* bound.
C8_NoProbeLeftOpen ==
    /\ Cardinality(probes) <= 1
    /\ pc \notin {"bind", "return"} => probes = {}
    /\ httpd # None => probes = {}
    /\ \A s \in probes : s.port = port

\* C8's case: a port was refused, a later one probed and returned, and the
\* server then bound it.
C8_Witness ==
    /\ httpd = result
    /\ result > start_port
    /\ probes = {}

\* C9: when the browser was not opened, the warning is printed and the
\* success notice is not; the process goes on to serve.
C9_BrowserFailureWarned ==
    browser \in {"False", "raised"}
        => /\ "open_manually" \in Printed
           /\ "browser_opened" \notin Printed
           /\ exc = ""

\* C10: while the server serves, its socket is bound to the port the one
\* call find_free_port(8000) returned, a port of 8000..8099, and the port
\* does not change while it serves.
C10_ServingPortFixed ==
    /\ [](pc = "serving"
            => /\ httpd = result
               /\ result \in 8000 .. 8099
               /\ calls = 1)
    /\ [][(pc = "serving" /\ pc' = "serving") => httpd' = httpd]_vars

\* C10's case: the server serves on a port above 8000 and an interrupt is
\* pending.
C10_Witness ==
    /\ pc = "serving"
    /\ interrupted
    /\ httpd = 8002

====
